---- MODULE Spec2Model ----
(***************************************************************************)
(* Open-addressing hash table with linear probing and tombstones           *)
(* (src/src/hashtable.c).  Pointers are natural numbers, NULL is 0.  A key *)
(* pointer addresses a NUL-terminated string; two pointers may address     *)
(* equal strings (two strdup's of one text).  The table is created with    *)
(* hash == NULL, so keys are hashed by _default_hash (djb2), and with      *)
(* equals == string_equals of the unit tests.                              *)
(***************************************************************************)
EXTENDS Integers, Sequences, FiniteSets

VARIABLES ht, old, last, shadow, script, it

vars == <<ht, old, last, shadow, script, it>>

\* ---------------------------------------------------------------- bounds
NumStrings == 9       \* distinct key strings, addressed by pointers 1..NumStrings
NumKeys == 10          \* key pointers 1..NumKeys; those above NumStrings repeat strings
NumFree == 3          \* Spec calls with pointers 1..NumFree and the repeating ones
NumValues == 1        \* value pointers 1..NumValues (and NULL)
MaxRequest == 9       \* requested capacities 0..MaxRequest
MaxCapacity == 16     \* no grow beyond this capacity is explored
MaxExhausted == 2     \* calls of ht_iterator_next after it first returned false

\* ------------------------------------------------------ program constants
NULL == 0
LOAD_FACTOR_NUM == 3      \* LOAD_FACTOR 0.75 = 3/4
LOAD_FACTOR_DEN == 4
RESIZE_FACTOR == 2
DEFAULT_CAPACITY == 16
HT_MIN_CAPACITY == 8
DJB2_SEED == 5381
SIZE_MAX == 536870911     \* stands for (size_t)-1, the value 0 - 1 wraps to
NO_SLOT == -1             \* first_deleted = (size_t)-1: no deleted slot seen

Keys == 1..NumKeys
Values == 1..NumValues


\* The string a key pointer addresses: one byte, then NUL.  Pointers p and
\* p + NumStrings address equal strings.  The strings are "a", "i", "q",
\* "b", "c", "d", ...: the hashes of "a", "i" and "q" are equal modulo 8,
\* those of "a" and "q" modulo 16 too.
KeyStr(p) ==
    LET i == (p - 1) % NumStrings
    IN  << IF i < 3 THEN 97 + 8 * i ELSE 95 + i >>

\* string_equals of the tests: strcmp(a, b) == 0
equals(a, b) == KeyStr(a) = KeyStr(b)

\* _default_hash: djb2, hash = hash * 33 + c over the bytes of the string
RECURSIVE djb2(_, _)
djb2(str, hash) ==
    IF str = << >> THEN hash
    ELSE djb2(Tail(str), ((hash * 32) + hash) + Head(str))

_default_hash(key) == IF key = NULL THEN 0 ELSE djb2(KeyStr(key), DJB2_SEED)

\* size_t arithmetic on ht->size
SizeInc(n) == IF n = SIZE_MAX THEN 0 ELSE n + 1
SizeDec(n) == IF n = 0 THEN SIZE_MAX ELSE n - 1

\* AboveLoad with > for >=.
AboveLoad_strict(size, capacity) == size * LOAD_FACTOR_DEN > capacity * LOAD_FACTOR_NUM

\* BelowLoad with <= for <.
BelowLoad_inclusive(size, capacity) ==
    size * LOAD_FACTOR_DEN <= capacity * (LOAD_FACTOR_DEN - LOAD_FACTOR_NUM)

\* size >= capacity * LOAD_FACTOR
AboveLoad(size, capacity) == size * LOAD_FACTOR_DEN >= capacity * LOAD_FACTOR_NUM
\* size < capacity * (1 - LOAD_FACTOR)
BelowLoad(size, capacity) ==
    size * LOAD_FACTOR_DEN < capacity * (LOAD_FACTOR_DEN - LOAD_FACTOR_NUM)

\* calloc'ed ht_entry
EmptyEntry == [key |-> NULL, value |-> NULL, is_deleted |-> FALSE]

calloc_entries(capacity) == [i \in 0..(capacity - 1) |-> EmptyEntry]

\* ht_create without the minimum capacity.
ht_create_no_floor(capacity, key_free, val_free) ==
    LET c1 == IF capacity = 0 THEN DEFAULT_CAPACITY ELSE capacity
    IN  [entries |-> calloc_entries(c1), size |-> 0, capacity |-> c1,
         key_free |-> key_free, val_free |-> val_free]

\* ht_create(capacity, NULL, string_equals, key_free, val_free)
ht_create(capacity, key_free, val_free) ==
    LET c1 == IF capacity = 0 THEN DEFAULT_CAPACITY ELSE capacity
        c2 == IF c1 < HT_MIN_CAPACITY THEN HT_MIN_CAPACITY ELSE c1
    IN  [entries |-> calloc_entries(c2), size |-> 0, capacity |-> c2,
         key_free |-> key_free, val_free |-> val_free]

\* ------------------------------------------------------------- _ht_resize
\* rehash_probe without the probing: the home slot is taken as it is.
rehash_probe_home_only(new_entries, new_capacity, index, n) == index

\* The inner loop of the rehash: the first slot of new_entries, from index
\* on, whose key is NULL.  n counts the slots already examined; once every
\* slot has been examined without finding one, the loop can never end.
RECURSIVE rehash_probe(_, _, _, _)
rehash_probe(new_entries, new_capacity, index, n) ==
    IF n = new_capacity THEN NO_SLOT
    ELSE IF new_entries[index].key # NULL
         THEN rehash_probe(new_entries, new_capacity, (index + 1) % new_capacity, n + 1)
         ELSE index

\* The outer loop of the rehash, from old slot i on.
RECURSIVE rehash(_, _, _)
rehash(h, i, acc) ==
    IF i >= h.capacity THEN acc
    ELSE IF h.entries[i].key # NULL /\ ~h.entries[i].is_deleted
         THEN LET new_capacity == acc.capacity
                  index == rehash_probe(acc.entries, new_capacity,
                                        _default_hash(h.entries[i].key) % new_capacity, 0)
              IN  IF index = NO_SLOT
                  THEN [acc EXCEPT !.hung = TRUE]
                  ELSE rehash(h, i + 1,
                              [acc EXCEPT !.entries[index] =
                                              [h.entries[i] EXCEPT !.is_deleted = FALSE],
                                          !.actual_size = acc.actual_size + 1])
         ELSE rehash(h, i + 1, acc)

\* _ht_resize without the minimum capacity.
_ht_resize_no_floor(h, new_capacity, alloc_ok) ==
    IF ~alloc_ok THEN [ht |-> h, ret |-> -1, hung |-> FALSE]
    ELSE LET new_entries == calloc_entries(new_capacity)
             r == rehash(h, 0,
                         [entries |-> new_entries, capacity |-> new_capacity,
                          actual_size |-> 0, hung |-> FALSE])
         IN  IF r.hung THEN [ht |-> h, ret |-> 0, hung |-> TRUE]
             ELSE [ht |-> [h EXCEPT !.size = r.actual_size,
                                    !.entries = r.entries,
                                    !.capacity = new_capacity],
                   ret |-> 0, hung |-> FALSE]

\* _ht_resize that, when calloc fails, has already reset size.
_ht_resize_size_first(h, new_capacity, alloc_ok) ==
    LET cap == IF new_capacity < HT_MIN_CAPACITY THEN HT_MIN_CAPACITY ELSE new_capacity
    IN  IF ~alloc_ok THEN [ht |-> [h EXCEPT !.size = 0], ret |-> -1, hung |-> FALSE]
        ELSE LET new_entries == calloc_entries(cap)
                 r == rehash(h, 0,
                             [entries |-> new_entries, capacity |-> cap,
                              actual_size |-> 0, hung |-> FALSE])
             IN  IF r.hung THEN [ht |-> h, ret |-> 0, hung |-> TRUE]
                 ELSE [ht |-> [h EXCEPT !.size = r.actual_size,
                                        !.entries = r.entries,
                                        !.capacity = cap],
                       ret |-> 0, hung |-> FALSE]

\* _ht_resize(ht, new_capacity); alloc_ok tells whether calloc succeeds.
\* Yields the table, the return value and whether the call never returns.
_ht_resize(h, new_capacity, alloc_ok) ==
    LET cap == IF new_capacity < HT_MIN_CAPACITY THEN HT_MIN_CAPACITY ELSE new_capacity
    IN  IF ~alloc_ok THEN [ht |-> h, ret |-> -1, hung |-> FALSE]
        ELSE LET new_entries == calloc_entries(cap)
                 r == rehash(h, 0,
                             [entries |-> new_entries, capacity |-> cap,
                              actual_size |-> 0, hung |-> FALSE])
             IN  IF r.hung THEN [ht |-> h, ret |-> 0, hung |-> TRUE]
                 ELSE [ht |-> [h EXCEPT !.size = r.actual_size,
                                        !.entries = r.entries,
                                        !.capacity = cap],
                       ret |-> 0, hung |-> FALSE]

\* ----------------------------------------------------------------- ht_get
\* get_probe that ends the search at a tombstoned slot too.
RECURSIVE get_probe_stops_at_deleted(_, _, _, _, _)
get_probe_stops_at_deleted(h, key, index, start_index, n) ==
    LET e == h.entries[index]
        next == (index + 1) % h.capacity
    IN  IF e.key = NULL
        THEN [found |-> FALSE, value |-> NULL, index |-> index, probes |-> n + 1]
        ELSE IF equals(e.key, key)
        THEN [found |-> TRUE, value |-> e.value, index |-> index, probes |-> n + 1]
        ELSE IF next # start_index
        THEN get_probe_stops_at_deleted(h, key, next, start_index, n + 1)
        ELSE [found |-> FALSE, value |-> NULL, index |-> index, probes |-> n + 1]

\* The do-while loop of ht_get from slot index on; n slots examined so far.
RECURSIVE get_probe(_, _, _, _, _)
get_probe(h, key, index, start_index, n) ==
    LET e == h.entries[index]
        next == (index + 1) % h.capacity
    IN  IF e.key = NULL /\ ~e.is_deleted
        THEN [found |-> FALSE, value |-> NULL, index |-> index, probes |-> n + 1]
        ELSE IF e.key # NULL /\ equals(e.key, key)
        THEN [found |-> TRUE, value |-> e.value, index |-> index, probes |-> n + 1]
        ELSE IF next # start_index
        THEN get_probe(h, key, next, start_index, n + 1)
        ELSE [found |-> FALSE, value |-> NULL, index |-> index, probes |-> n + 1]

ht_get(h, key) ==
    IF key = NULL
    THEN [found |-> FALSE, value |-> NULL, index |-> 0, probes |-> 0]
    ELSE LET index == _default_hash(key) % h.capacity
         IN  get_probe(h, key, index, index, 0)

\* What a call did: the table it leaves, its return value (for ht_get the
\* pointer returned), whether it never returns, the slots its probe loop
\* examined, the pointers handed to key_free and to val_free in call order,
\* the outcome of the resize it attempted, and the path it took.
Outcome(h, ret, hung, probes, kfreed, vfreed, resized, how) ==
    [ht |-> h, ret |-> ret, hung |-> hung, probes |-> probes,
     kfreed |-> kfreed, vfreed |-> vfreed, resized |-> resized, how |-> how]

\* -------------------------------------------------------------- ht_insert
\* The while loop of ht_insert from slot index on; n slots examined so far.
\* When all capacity slots have been examined and none is empty and not
\* deleted, and none holds the key, the loop condition stays true forever.
RECURSIVE insert_probe(_, _, _, _, _)
insert_probe(h, key, index, first_deleted, n) ==
    LET e == h.entries[index]
        fd == IF e.is_deleted /\ first_deleted = NO_SLOT THEN index ELSE first_deleted
    IN  IF n = h.capacity
        THEN [exit |-> "hang", index |-> index, first_deleted |-> first_deleted, probes |-> n + 1]
        ELSE IF ~(e.key # NULL \/ e.is_deleted)
        THEN [exit |-> "empty", index |-> index, first_deleted |-> first_deleted, probes |-> n + 1]
        ELSE IF e.key # NULL /\ equals(e.key, key)
        THEN [exit |-> "found", index |-> index, first_deleted |-> fd, probes |-> n + 1]
        ELSE insert_probe(h, key, (index + 1) % h.capacity, fd, n + 1)

ht_insert(h, key, value, alloc_ok) ==
    IF key = NULL THEN Outcome(h, -1, FALSE, 0, << >>, << >>, "none", "null")
    ELSE
    LET grow == AboveLoad(h.size, h.capacity)
        rs == IF grow THEN _ht_resize(h, h.capacity * RESIZE_FACTOR, alloc_ok)
              ELSE [ht |-> h, ret |-> 0, hung |-> FALSE]
        resized == IF ~grow THEN "none" ELSE IF rs.ret = 0 THEN "grow" ELSE "failed"
        h1 == rs.ht
        p == insert_probe(h1, key, _default_hash(key) % h1.capacity, NO_SLOT, 0)
        index == IF p.first_deleted # NO_SLOT THEN p.first_deleted ELSE p.index
    IN  IF rs.hung THEN Outcome(h, 0, TRUE, 0, << >>, << >>, "none", "hang")
        ELSE IF rs.ret # 0 THEN Outcome(h1, -1, FALSE, 0, << >>, << >>, resized, "failed")
        ELSE IF p.exit = "hang"
        THEN Outcome(h1, 0, TRUE, p.probes, << >>, << >>, resized, "hang")
        ELSE IF p.exit = "found"
        THEN Outcome([h1 EXCEPT !.entries[p.index].value = value,
                                !.entries[p.index].is_deleted = FALSE],
                     0, FALSE, p.probes, << >>,
                     IF h1.val_free THEN << h1.entries[p.index].value >> ELSE << >>,
                     resized, "overwrite")
        ELSE Outcome([h1 EXCEPT !.entries[index] =
                                    [key |-> key, value |-> value, is_deleted |-> FALSE],
                                !.size = IF p.first_deleted = NO_SLOT
                                         THEN SizeInc(h1.size) ELSE h1.size],
                     0, FALSE, p.probes, << >>, << >>, resized,
                     IF p.first_deleted = NO_SLOT THEN "empty" ELSE "reuse")

\* -------------------------------------------------------------- ht_remove
\* The while loop of ht_remove from slot index on; n slots examined so far.
\* When all capacity slots hold a key and none equals the key, the loop
\* condition stays true forever.
RECURSIVE remove_probe(_, _, _, _)
remove_probe(h, key, index, n) ==
    LET e == h.entries[index]
    IN  IF n = h.capacity THEN [exit |-> "hang", index |-> index, probes |-> n + 1]
        ELSE IF e.key = NULL THEN [exit |-> "absent", index |-> index, probes |-> n + 1]
        ELSE IF equals(e.key, key) THEN [exit |-> "found", index |-> index, probes |-> n + 1]
        ELSE remove_probe(h, key, (index + 1) % h.capacity, n + 1)

\* ht_remove that clears the slot without marking it deleted.
ht_remove_no_tombstone(h, key, alloc_ok) ==
    IF key = NULL THEN Outcome(h, -1, FALSE, 0, << >>, << >>, "none", "null")
    ELSE
    LET p == remove_probe(h, key, _default_hash(key) % h.capacity, 0)
        e == h.entries[p.index]
        kfreed == IF h.key_free THEN << e.key >> ELSE << >>
        vfreed == IF h.val_free THEN << e.value >> ELSE << >>
        h1 == [h EXCEPT !.entries[p.index] =
                            [key |-> NULL, value |-> NULL, is_deleted |-> FALSE],
                        !.size = SizeDec(h.size)]
        shrink == BelowLoad(h1.size, h1.capacity)
        rs == IF shrink THEN _ht_resize(h1, h1.capacity \div RESIZE_FACTOR, alloc_ok)
              ELSE [ht |-> h1, ret |-> 0, hung |-> FALSE]
        resized == IF ~shrink THEN "none" ELSE IF rs.ret = 0 THEN "shrink" ELSE "failed"
    IN  IF p.exit = "hang" THEN Outcome(h, 0, TRUE, p.probes, << >>, << >>, "none", "hang")
        ELSE IF p.exit = "absent"
        THEN Outcome(h, -1, FALSE, p.probes, << >>, << >>, "none", "absent")
        ELSE IF rs.hung THEN Outcome(h1, 0, TRUE, p.probes, kfreed, vfreed, "none", "hang")
        ELSE Outcome(rs.ht, IF rs.ret # 0 THEN -1 ELSE 0, FALSE, p.probes,
                     kfreed, vfreed, resized, "found")

ht_remove(h, key, alloc_ok) ==
    IF key = NULL THEN Outcome(h, -1, FALSE, 0, << >>, << >>, "none", "null")
    ELSE
    LET p == remove_probe(h, key, _default_hash(key) % h.capacity, 0)
        e == h.entries[p.index]
        kfreed == IF h.key_free THEN << e.key >> ELSE << >>
        vfreed == IF h.val_free THEN << e.value >> ELSE << >>
        h1 == [h EXCEPT !.entries[p.index] =
                            [key |-> NULL, value |-> NULL, is_deleted |-> TRUE],
                        !.size = SizeDec(h.size)]
        shrink == BelowLoad(h1.size, h1.capacity)
        rs == IF shrink THEN _ht_resize(h1, h1.capacity \div RESIZE_FACTOR, alloc_ok)
              ELSE [ht |-> h1, ret |-> 0, hung |-> FALSE]
        resized == IF ~shrink THEN "none" ELSE IF rs.ret = 0 THEN "shrink" ELSE "failed"
    IN  IF p.exit = "hang" THEN Outcome(h, 0, TRUE, p.probes, << >>, << >>, "none", "hang")
        ELSE IF p.exit = "absent"
        THEN Outcome(h, -1, FALSE, p.probes, << >>, << >>, "none", "absent")
        ELSE IF rs.hung THEN Outcome(h1, 0, TRUE, p.probes, kfreed, vfreed, "none", "hang")
        ELSE Outcome(rs.ht, IF rs.ret # 0 THEN -1 ELSE 0, FALSE, p.probes,
                     kfreed, vfreed, resized, "found")

\* --------------------------------------------------------------- ht_clear
\* The for loop of ht_clear from slot i on.
RECURSIVE clear_loop(_, _, _)
clear_loop(h, i, acc) ==
    IF i >= h.capacity THEN acc
    ELSE IF acc.entries[i].key # NULL
         THEN clear_loop(h, i + 1,
                 [entries |-> [acc.entries EXCEPT ![i] = EmptyEntry],
                  kfreed |-> IF h.key_free THEN Append(acc.kfreed, acc.entries[i].key)
                             ELSE acc.kfreed,
                  vfreed |-> IF h.val_free THEN Append(acc.vfreed, acc.entries[i].value)
                             ELSE acc.vfreed])
         ELSE clear_loop(h, i + 1, acc)

ht_clear(h) ==
    LET r == clear_loop(h, 0, [entries |-> h.entries, kfreed |-> << >>, vfreed |-> << >>])
    IN  Outcome([h EXCEPT !.entries = r.entries, !.size = 0],
                0, FALSE, 0, r.kfreed, r.vfreed, "none", "clear")

\* ------------------------------------------------------------ ht_iterator
\* ht_iterator_next that takes every slot not marked deleted.
RECURSIVE ht_iterator_next_any_live(_, _)
ht_iterator_next_any_live(h, index) ==
    IF index < h.capacity
    THEN IF ~h.entries[index].is_deleted
         THEN [ret |-> 1, key |-> h.entries[index].key, value |-> h.entries[index].value,
               slot |-> index, index |-> index + 1]
         ELSE ht_iterator_next_any_live(h, index + 1)
    ELSE [ret |-> 0, key |-> NULL, value |-> NULL, slot |-> index, index |-> index]

\* ht_iterator_next on an iterator over h that stands at index: the return
\* value (1 for true), the key and value it stores through its out
\* parameters, the slot they come from, and the index it leaves.
RECURSIVE ht_iterator_next(_, _)
ht_iterator_next(h, index) ==
    IF index < h.capacity
    THEN IF h.entries[index].key # NULL /\ ~h.entries[index].is_deleted
         THEN [ret |-> 1, key |-> h.entries[index].key, value |-> h.entries[index].value,
               slot |-> index, index |-> index + 1]
         ELSE ht_iterator_next(h, index + 1)
    ELSE [ret |-> 0, key |-> NULL, value |-> NULL, slot |-> index, index |-> index]

\* ------------------------------------------------------------------ state
\* ht      the table (entries, size, capacity, and whether key_free and
\*         val_free were supplied)
\* old     the table as it was when the last call was made
\* last    the last call: its name, arguments and Outcome
\* shadow  the contract's view: per key string, whether it is held and the
\*         value of the latest successful insert
\* script  how far a caller that follows a fixed scenario has come
\* it      the caller's ht_iterator, and what it has yielded so far
Strings == { KeyStr(p) : p \in Keys }

Absent == [in |-> FALSE, value |-> NULL]

\* The caller follows no scenario.
NoScript == [inserted |-> {}, removed |-> {}, scripted |-> FALSE]

\* The caller holds no iterator.
NoIterator == [live |-> FALSE, index |-> 0, yielded |-> << >>, exhausted |-> 0]

Call(op, key, value, o) ==
    [op |-> op, key |-> key, value |-> value, ret |-> o.ret, hung |-> o.hung,
     probes |-> o.probes, kfreed |-> o.kfreed, vfreed |-> o.vfreed,
     resized |-> o.resized, how |-> o.how]

Init ==
    \E capacity \in 0..MaxRequest, dispose \in BOOLEAN :
        /\ ht = ht_create(capacity, dispose, dispose)
        /\ old = ht
        /\ last = Call("create", NULL, capacity,
                       Outcome(ht, 0, FALSE, 0, << >>, << >>, "none", "create"))
        /\ shadow = [s \in Strings |-> Absent]
        /\ script = NoScript
        /\ it = NoIterator

\* The caller makes a call once it has taken the result of the previous one;
\* a call that never returns ends the run of the program.
Idle == Call("none", NULL, NULL, Outcome(ht, 0, FALSE, 0, << >>, << >>, "none", "none"))

Running == last.op \in {"none", "create"}

\* The caller takes the result of the last call.
Return ==
    /\ ~Running /\ ~last.hung
    /\ last' = Idle
    /\ old' = ht
    /\ UNCHANGED <<ht, shadow>>

Insert(key, value, alloc_ok) ==
    LET o == ht_insert(ht, key, value, alloc_ok)
    IN  /\ Running
        /\ key # NULL /\ AboveLoad(ht.size, ht.capacity)
              => ht.capacity * RESIZE_FACTOR <= MaxCapacity
        /\ ht' = o.ht
        /\ old' = ht
        /\ last' = Call("insert", key, value, o)
        /\ shadow' = IF key # NULL /\ ~o.hung /\ o.ret = 0
                     THEN [shadow EXCEPT ![KeyStr(key)] = [in |-> TRUE, value |-> value]]
                     ELSE shadow

Remove(key, alloc_ok) ==
    LET o == ht_remove(ht, key, alloc_ok)
    IN  /\ Running
        /\ ht' = o.ht
        /\ old' = ht
        /\ last' = Call("remove", key, NULL, o)
        /\ shadow' = IF key # NULL /\ ~o.hung /\ o.ret = 0
                     THEN [shadow EXCEPT ![KeyStr(key)] = Absent]
                     ELSE shadow

Get(key) ==
    LET g == ht_get(ht, key)
    IN  /\ Running
        /\ ht' = ht
        /\ old' = ht
        /\ last' = Call("get", key, NULL,
                        Outcome(ht, g.value, FALSE, g.probes, << >>, << >>, "none",
                                IF key = NULL THEN "null"
                                ELSE IF g.found THEN "found" ELSE "absent"))
        /\ shadow' = shadow

Clear ==
    LET o == ht_clear(ht)
    IN  /\ Running
        /\ ht' = o.ht
        /\ old' = ht
        /\ last' = Call("clear", NULL, NULL, o)
        /\ shadow' = [s \in Strings |-> Absent]

\* The calls of a caller that uses the key pointers K, the value pointers V
\* and sees calloc succeed or fail as A allows.
Calls(K, V, A) ==
    \/ \E key \in K \cup {NULL}, value \in V \cup {NULL}, alloc_ok \in A :
           Insert(key, value, alloc_ok) /\ UNCHANGED <<script, it>>
    \/ \E key \in K \cup {NULL}, alloc_ok \in A :
           Remove(key, alloc_ok) /\ UNCHANGED <<script, it>>
    \/ \E key \in K \cup {NULL} : Get(key) /\ UNCHANGED <<script, it>>
    \/ Clear /\ UNCHANGED <<script, it>>
    \/ Return /\ UNCHANGED <<script, it>>

FreeKeys == (1..NumFree) \cup ((NumStrings + 1)..NumKeys)

Next == Calls(FreeKeys, Values, BOOLEAN)

\* Any calls with a few key strings; calloc may fail in any resize.
Spec == Init /\ [][Next]_vars

\* The same calls when calloc always succeeds.
NextOk == Calls(FreeKeys, Values, {TRUE})

SpecOk == Init /\ [][NextOk]_vars

\* A caller that fills the table: it works freely with the string "a"
\* (pointer 1), and inserts every other string but
\* the last, once the strings before it are in the table, with value
\* pointer 1.  The last string is a stranger: it is looked up and removed,
\* never inserted.  calloc always succeeds.
Stranger == NumStrings
Fillers == 2..(NumStrings - 1)
FillKeys == {1}

Fill(key) ==
    /\ \A q \in Fillers : q < key => ht_get(ht, q).found
    /\ Insert(key, 1, TRUE)

InitFill ==
    /\ ht = ht_create(HT_MIN_CAPACITY, TRUE, TRUE)
    /\ old = ht
    /\ last = Call("create", NULL, HT_MIN_CAPACITY,
                   Outcome(ht, 0, FALSE, 0, << >>, << >>, "none", "create"))
    /\ shadow = [s \in Strings |-> Absent]
    /\ script = NoScript
    /\ it = NoIterator

NextFill ==
    \/ Calls(FillKeys, Values, {TRUE})
    \/ \E key \in Fillers : Fill(key) /\ UNCHANGED <<script, it>>
    \/ Remove(Stranger, TRUE) /\ UNCHANGED <<script, it>>
    \/ Get(Stranger) /\ UNCHANGED <<script, it>>

SpecFill == InitFill /\ [][NextFill]_vars

\* A caller whose key strings all share the home slot of "a" in a table of
\* the minimum capacity; calloc may fail in any resize.
Colliders ==
    { p \in 1..NumStrings :
        _default_hash(p) % HT_MIN_CAPACITY = _default_hash(1) % HT_MIN_CAPACITY }

\* The same caller on a table of any requested capacity, with or without
\* the dispose functions, when calloc always succeeds.
NextCreate == Calls(Colliders, Values, {TRUE})

SpecCreate == Init /\ [][NextCreate]_vars

NextFail == Calls(Colliders, Values, BOOLEAN)

SpecFail == InitFill /\ [][NextFail]_vars

\* A caller that builds a table with the colliding keys and then traverses
\* it: ht_iterator_create, then ht_iterator_next until it returns false and
\* up to MaxExhausted times more.  The table is not changed while the
\* iterator lives.  calloc always succeeds.
IterCreate ==
    /\ Running /\ ~it.live
    /\ it' = [live |-> TRUE, index |-> 0, yielded |-> << >>, exhausted |-> 0]
    /\ UNCHANGED <<ht, old, last, shadow, script>>

IterNext ==
    LET r == ht_iterator_next(ht, it.index)
    IN  /\ Running /\ it.live
        /\ it.exhausted < MaxExhausted
        /\ it' = [it EXCEPT !.index = r.index,
                            !.yielded = IF r.ret = 1
                                        THEN Append(it.yielded, <<r.slot, r.key, r.value>>)
                                        ELSE it.yielded,
                            !.exhausted = IF r.ret = 1 THEN it.exhausted
                                          ELSE it.exhausted + 1]
        /\ UNCHANGED <<ht, old, last, shadow, script>>

NextIter ==
    \/ ~it.live /\ Calls(Colliders, Values, {TRUE})
    \/ IterCreate
    \/ IterNext

SpecIter == InitFill /\ [][NextIter]_vars

\* The caller of the test RemoveAndShrink: it creates a table with requested
\* capacity TestRequest, inserts TestCount distinct keys, then calls
\* ht_remove once for each of them, in any order.  calloc always succeeds.
TestRequest == 4
TestCount == 5
TestKeys == 1..(2 * NumFree)

TestInsert(key) ==
    /\ Cardinality(script.inserted) < TestCount
    /\ key \notin script.inserted
    /\ Insert(key, 1, TRUE)
    /\ script' = [script EXCEPT !.inserted = script.inserted \cup {key}]
    /\ UNCHANGED it

TestRemove(key) ==
    /\ Cardinality(script.inserted) = TestCount
    /\ key \in script.inserted \ script.removed
    /\ Remove(key, TRUE)
    /\ script' = [script EXCEPT !.removed = script.removed \cup {key}]
    /\ UNCHANGED it

InitTest ==
    /\ ht = ht_create(TestRequest, TRUE, TRUE)
    /\ old = ht
    /\ last = Call("create", NULL, TestRequest,
                   Outcome(ht, 0, FALSE, 0, << >>, << >>, "none", "create"))
    /\ shadow = [s \in Strings |-> Absent]
    /\ script = [inserted |-> {}, removed |-> {}, scripted |-> TRUE]
    /\ it = NoIterator

NextTest ==
    \/ \E key \in TestKeys : TestInsert(key)
    \/ \E key \in TestKeys : TestRemove(key)
    \/ Return /\ UNCHANGED <<script, it>>

SpecTest == InitTest /\ [][NextTest]_vars

\* ------------------------------------------------------------ observations
Slots(h) == 0..(h.capacity - 1)
\* occupied: the slot holds a key
Occupied(h) == { i \in Slots(h) : h.entries[i].key # NULL }
\* tombstoned: no key, is_deleted set
Tombstoned(h) == { i \in Slots(h) : h.entries[i].key = NULL /\ h.entries[i].is_deleted }
\* virgin-empty: no key, is_deleted clear
Virgin(h) == { i \in Slots(h) : h.entries[i].key = NULL /\ ~h.entries[i].is_deleted }
\* the (key, value) pairs held in occupied slots
Pairs(h) == { <<h.entries[i].key, h.entries[i].value>> : i \in Occupied(h) }
\* some occupied slot holds a key equal to key
Holds(h, key) == \E i \in Occupied(h) : equals(h.entries[i].key, key)
\* the home index of a key
Home(h, key) == _default_hash(key) % h.capacity
\* the slots from slot from up to, not including, slot to, in probe order
Path(h, from, to) == { (from + d) % h.capacity : d \in 0..(((to - from) % h.capacity) - 1) }

IsCall(op) == last.op = op /\ last.key # NULL /\ ~last.hung

\* ---------------------------------------------------------------------- C1
\* C1: after any returning calls, ht_get(k) yields, for every non-null key
\* k, the value of the latest successful insert of k that no successful
\* remove of k and no clear has followed, and not-found when there is none.
C1_GetFollowsContract ==
    \A k \in Keys :
        LET g == ht_get(ht, k)
            c == shadow[KeyStr(k)]
        IN  IF c.in THEN g.found /\ g.value = c.value ELSE ~g.found

\* ---------------------------------------------------------------------- C2
\* C2: when ht_insert(k, v) returns success, ht_get(k) called right after it
\* finds k and returns v (through any pointer to an equal string).
C2_RoundTrip ==
    IsCall("insert") /\ last.ret = 0
        => \A k \in Keys :
               equals(k, last.key)
                   => LET g == ht_get(ht, k) IN g.found /\ g.value = last.value

\* A successful insert put a new key, with a non-null value, into a tombstoned
\* slot that its probe reached past occupied slots.
C2_Witness ==
    /\ IsCall("insert") /\ last.ret = 0 /\ last.how = "reuse" /\ last.value # NULL
    /\ \E i \in Occupied(ht) :
           /\ ht.entries[i].key = last.key
           /\ i \in Tombstoned(old)
           /\ Path(ht, Home(ht, last.key), i) # {}

\* ---------------------------------------------------------------------- C3
\* C3: ht_remove(k) returns success exactly when ht_get(k), called right
\* before it, would have found k.
C3_RemoveFindsWhatGetFinds ==
    IsCall("remove") => ((last.ret = 0) <=> ht_get(old, last.key).found)

\* ---------------------------------------------------------------------- C4
\* C4: size equals the number of occupied slots, and an insert of a key that
\* was not in the table adds exactly one to size, in a virgin-empty slot or
\* in a reused tombstoned slot alike.
C4_SizeCountsOccupied ==
    /\ ht.size = Cardinality(Occupied(ht))
    /\ IsCall("insert") /\ last.how \in {"empty", "reuse"} /\ last.resized = "none"
          => ht.size = old.size + 1

\* ---------------------------------------------------------------------- C5
\* C5: every ht_insert, ht_remove and ht_get returns, and its probe loop
\* examines at most capacity slots.
C5_CallsTerminate ==
    last.op \in {"insert", "remove", "get"}
        => ~last.hung /\ last.probes <= ht.capacity

\* ---------------------------------------------------------------------- C6
\* C6: ht_insert(k, v2) of a key the table holds returns success; ht_get(k)
\* then returns v2; size is what it was; the slot still holds the key
\* pointer it held; the previous value went to val_free exactly once.
C6_Overwrite ==
    last.op = "insert" /\ last.key # NULL /\ Holds(old, last.key)
        => /\ ~last.hung
           /\ last.ret = 0
           /\ ht_get(ht, last.key).found
           /\ ht_get(ht, last.key).value = last.value
           /\ ht.size = old.size
           /\ { ht.entries[i].key : i \in Occupied(ht) }
                  = { old.entries[i].key : i \in Occupied(old) }
           /\ old.val_free => last.vfreed = << ht_get(old, last.key).value >>
           /\ ~old.val_free => last.vfreed = << >>
           /\ last.kfreed = << >>

\* ---------------------------------------------------------------------- C7
\* C7: ht_get of any key, ht_remove of a key the table does not hold, and
\* ht_insert, ht_remove and ht_get of a NULL key leave the table as it was
\* and dispose nothing; the ht_remove and ht_insert among them return
\* failure, and ht_get of a NULL key or of a key not held returns not-found.
C7_Rejected ==
    \/ last.op = "get"
    \/ last.op \in {"insert", "remove"} /\ last.key = NULL
    \/ last.op = "remove" /\ last.key # NULL /\ ~Holds(old, last.key)

C7_RejectedCallsChangeNothing ==
    C7_Rejected
        => /\ ht = old
           /\ last.kfreed = << >> /\ last.vfreed = << >>
           /\ ~last.hung
           /\ last.op \in {"insert", "remove"} => last.ret = -1
           /\ last.op = "get" /\ (last.key = NULL \/ ~Holds(old, last.key))
                  => last.ret = NULL

\* ---------------------------------------------------------------------- C8
\* The sequence of field f of the occupied slots of h, from slot i on.
RECURSIVE OccupiedSeq(_, _, _)
OccupiedSeq(h, i, f) ==
    IF i >= h.capacity THEN << >>
    ELSE IF h.entries[i].key # NULL
         THEN << h.entries[i][f] >> \o OccupiedSeq(h, i + 1, f)
         ELSE OccupiedSeq(h, i + 1, f)

\* C8: after ht_clear size is 0, capacity is what it was, every slot is
\* virgin-empty, every key and value that was held has been disposed exactly
\* once, and ht_get finds no key.
C8_ClearResetsEverySlot ==
    last.op = "clear"
        => /\ ht.size = 0
           /\ ht.capacity = old.capacity
           /\ Virgin(ht) = Slots(ht)
           /\ old.key_free => last.kfreed = OccupiedSeq(old, 0, "key")
           /\ old.val_free => last.vfreed = OccupiedSeq(old, 0, "value")
           /\ \A k \in Keys : ~ht_get(ht, k).found

\* ---------------------------------------------------------------------- C9
\* C9: a successful resize keeps the (key, value) pairs: after an insert
\* that grew the table the pairs are those held before, with the pair of
\* the inserted key replaced or added; after a remove that shrank it they
\* are those held before without the removed one.  Nothing but an
\* overwritten value or the removed pair is disposed, no slot is tombstoned,
\* size is the number of entries held, and a grow raises the capacity.
C9_OtherPairs(h) == { p \in Pairs(h) : ~equals(p[1], last.key) }

C9_ResizeKeepsMembers ==
    /\ IsCall("insert") /\ last.resized = "grow"
          => /\ C9_OtherPairs(ht) = C9_OtherPairs(old)
             /\ Cardinality(Pairs(ht) \ C9_OtherPairs(ht)) = 1
             /\ last.kfreed = << >>
             /\ last.vfreed # << >> => last.how = "overwrite"
             /\ Tombstoned(ht) = {}
             /\ ht.size = Cardinality(Occupied(ht))
             /\ Cardinality(Pairs(ht)) = Cardinality(Occupied(ht))
             /\ ht.capacity > old.capacity
    /\ IsCall("remove") /\ last.resized = "shrink"
          => /\ Pairs(ht) = C9_OtherPairs(old)
             /\ Cardinality(Pairs(old)) = Cardinality(Pairs(ht)) + 1
             /\ Len(last.kfreed) <= 1 /\ Len(last.vfreed) <= 1
             /\ Tombstoned(ht) = {}
             /\ ht.size = Cardinality(Occupied(ht))
             /\ Cardinality(Pairs(ht)) = Cardinality(Occupied(ht))

\* An insert of a new key grew a table that held tombstoned slots and whose
\* size was not its number of occupied slots, and moved colliding keys.
C9_Witness ==
    /\ IsCall("insert") /\ last.resized = "grow" /\ last.how = "empty"
    /\ Tombstoned(old) # {}
    /\ old.size # Cardinality(Occupied(old))
    /\ \E i \in Occupied(ht) : Home(ht, ht.entries[i].key) # i
    /\ Cardinality(Occupied(ht)) >= 6

C11_Done ==
    /\ script.scripted
    /\ Cardinality(script.removed) = TestCount
    /\ Running
    /\ \A k \in script.removed : ~shadow[KeyStr(k)].in

C12_FailedShrinkLeavesTable ==
    IsCall("remove") /\ last.resized = "failed"
        => /\ last.ret = -1
           /\ ht = old
           /\ last.kfreed = << >> /\ last.vfreed = << >>

\* --------------------------------------------------------------------- C13
\* C13: when the calloc of a resize fails, entries, size and capacity are
\* what they were when the resize was attempted.  An ht_insert whose grow
\* fails returns failure and leaves the table as it was, disposing nothing;
\* an ht_remove whose shrink fails leaves the table as its own deletion made
\* it: the slot of the key tombstoned, size one less, capacity unchanged.
C13_FailedResizeKeepsTable ==
    /\ last.op = "insert" /\ last.resized = "failed"
          => /\ ~last.hung /\ last.ret = -1
             /\ ht = old
             /\ last.kfreed = << >> /\ last.vfreed = << >>
    /\ last.op = "remove" /\ last.resized = "failed"
          => /\ ~last.hung /\ last.ret = -1
             /\ ht.capacity = old.capacity
             /\ ht.size = (IF old.size = 0 THEN SIZE_MAX ELSE old.size - 1)
             /\ \E i \in Occupied(old) :
                    /\ equals(old.entries[i].key, last.key)
                    /\ ht.entries = [old.entries EXCEPT ![i] =
                                         [key |-> NULL, value |-> NULL, is_deleted |-> TRUE]]

\* An insert of a key the table holds, with another value, failed in its
\* grow.
C13_Witness ==
    /\ IsCall("insert") /\ last.resized = "failed"
    /\ Holds(old, last.key)
    /\ ht_get(old, last.key).value # last.value
    /\ Tombstoned(old) # {}

\* --------------------------------------------------------------------- C14
\* C14: when ht_remove(k) returns success, size is one less than before the
\* call, ht_get(k) right after it finds nothing, and every other key is
\* found exactly as before, with the value it had.
C14_RemovePostcondition ==
    IsCall("remove") /\ last.ret = 0
        => /\ ht.size = old.size - 1
           /\ \A k \in Keys :
                  IF equals(k, last.key) THEN ~ht_get(ht, k).found
                  ELSE ht_get(ht, k) .found = ht_get(old, k).found
                       /\ ht_get(ht, k).value = ht_get(old, k).value

\* --------------------------------------------------------------------- C15
\* C15: an iterator over a table that is not changed meanwhile has yielded,
\* at every moment, exactly the occupied slots below its index, each once,
\* in increasing slot order, with the key and value the slot holds; it
\* never yields a slot without a key; once it has reported exhaustion it
\* has yielded every occupied slot and yields nothing more; the keys
\* yielded are then the keys ht_get finds.
C15_IteratorYieldsOccupiedOnce ==
    it.live
        => /\ \A j \in 1..Len(it.yielded) :
                  /\ it.yielded[j][1] \in Occupied(ht)
                  /\ ~ht.entries[it.yielded[j][1]].is_deleted
                  /\ it.yielded[j][2] = ht.entries[it.yielded[j][1]].key
                  /\ it.yielded[j][3] = ht.entries[it.yielded[j][1]].value
                  /\ j > 1 => it.yielded[j - 1][1] < it.yielded[j][1]
           /\ { it.yielded[j][1] : j \in 1..Len(it.yielded) }
                  = { i \in Occupied(ht) : i < it.index }
           /\ it.exhausted > 0
                  => /\ it.index = ht.capacity
                     /\ Len(it.yielded) = Cardinality(Occupied(ht))
                     /\ \A k \in Keys :
                            ht_get(ht, k).found
                                <=> \E j \in 1..Len(it.yielded) : equals(it.yielded[j][2], k)

\* An iterator has yielded two keys with a tombstoned slot between them,
\* and has then reported exhaustion twice.
C15_Witness ==
    /\ it.live /\ it.exhausted = 2
    /\ Len(it.yielded) = 2
    /\ \E t \in Tombstoned(ht) : it.yielded[1][1] < t /\ t < it.yielded[2][1]

\* --------------------------------------------------------------------- C16
\* C16: an ht_insert with a non-null key resizes to twice the capacity
\* exactly when size >= 0.75 * capacity holds at the call, before it probes:
\* the key is then placed, or found and overwritten, in the new storage.
\* Otherwise the capacity is unchanged.
C16_GrowTrigger ==
    last.op = "insert" /\ last.key # NULL
        => /\ (4 * old.size >= 3 * old.capacity) <=> last.resized = "grow"
           /\ last.resized = "grow"
                  => /\ ht.capacity = 2 * old.capacity
                     /\ ~last.hung /\ last.ret = 0
                     /\ ht_get(ht, last.key).found
                     /\ Tombstoned(ht) = {}
                     /\ (last.how = "overwrite") <=> Holds(old, last.key)
           /\ last.resized # "grow" => ht.capacity = old.capacity

\* An insert of a key the table held grew the table at the threshold exactly
\* and ended as an overwrite.
C16_Witness ==
    /\ IsCall("insert") /\ last.resized = "grow" /\ last.how = "overwrite"
    /\ 4 * old.size = 3 * old.capacity
    /\ ht.capacity = 16

\* --------------------------------------------------------------------- C17
\* C17: an ht_remove that returns success resizes to the larger of
\* capacity / 2 and 8 exactly when size, after the decrement, is below
\* 0.25 * capacity; otherwise the capacity is unchanged and the slot of the
\* removed key stays tombstoned.  An ht_remove that does not find its key
\* does not resize.
C17_SizeAfterDecrement == IF old.size = 0 THEN SIZE_MAX ELSE old.size - 1

C18_ProbeChain ==
    \A i \in Occupied(ht) :
        Path(ht, Home(ht, ht.entries[i].key), i) \cap Virgin(ht) = {}

\* A remove has left a tombstoned slot on the probe path of a key that is
\* still held.
C18_Witness ==
    /\ IsCall("remove") /\ last.ret = 0
    /\ \E i \in Occupied(ht) :
           Path(ht, Home(ht, ht.entries[i].key), i) \cap (Tombstoned(ht) \ Tombstoned(old)) # {}

\* --------------------------------------------------------------------- C19
\* C19: size is never above capacity, and ht_remove never decrements a size
\* of 0.
C19_SizeWithinCapacity ==
    /\ ht.size <= ht.capacity
    /\ IsCall("remove") /\ last.how = "found" => old.size > 0

\* --------------------------------------------------------------------- C20
\* C20: at least one slot is virgin-empty: the occupied and the tombstoned
\* slots together are fewer than capacity, and the occupied slots alone too.
C20_SomeSlotVirgin ==
    /\ Virgin(ht) # {}
    /\ Cardinality(Occupied(ht)) + Cardinality(Tombstoned(ht)) < ht.capacity
    /\ Cardinality(Occupied(ht)) < ht.capacity
====
